---- MODULE Spec2Model ----
(***************************************************************************)
(* Model of the render state core of learn_wgpu: the State object of       *)
(* src/state.rs (size, surface configuration, camera aspect, the per-frame *)
(* submission protocol of State::render) and the event loop closure of     *)
(* src/lib.rs that drives it (timer thread, user events, window events).   *)
(***************************************************************************)
EXTENDS Integers, Sequences, FiniteSets, TLC

(* Bounds of the model. *)
MaxDim == 2        \* window dimensions range over 0..MaxDim
MaxPending == 2    \* timer events waiting in the event loop proxy channel
MaxFormats == 2    \* surface formats the adapter reports

VARIABLES
    size,              \* State::size, <<width, height>>
    config,            \* State::config (SurfaceConfiguration)
    surface,           \* the configuration the surface was last configured with
    camera,            \* State::camera (the aspect field)
    pc,                \* position of the event loop thread
    ev,                \* the event being handled (or last handled) and the calls it made
    pending,           \* CustomEvent::Timer events sent and not yet dispatched
    redraw_requested,  \* window.request_redraw() was called and not yet served
    exiting,           \* elwt.exit() was called
    run_result,        \* what event_loop.run(..) returned, "Running" until it returns
    adapter,           \* what surface.get_capabilities(adapter) reports
    resources          \* the GPU objects State owns besides config and camera

vars == <<size, config, surface, camera, pc, ev, pending, redraw_requested,
          exiting, run_result, adapter, resources>>

Dims == 0..MaxDim
Sizes == Dims \X Dims

(* wgpu::SurfaceError, plus "Ok" for a successful get_current_texture(). *)
SurfaceErrors == {"Timeout", "Outdated", "Lost", "OutOfMemory"}
AcquireOutcomes == {"Ok"} \cup SurfaceErrors

(* Why the window system delivers RedrawRequested. *)
RedrawCauses == {"requested", "exposed"}

(* The static mesh: the five vertices by name, and the index list. *)
VERTICES == <<"A", "B", "C", "D", "E">>
INDICES == <<0, 1, 4, 1, 2, 4, 2, 3, 4>>

----------------------------------------------------------------------------
(* Helpers. *)

RECURSIVE GCD(_, _)
GCD(a, b) == IF b = 0 THEN a ELSE GCD(b, a % b)

(* w as f32 / h as f32, kept as a fraction in lowest terms; <<1, 0>> is    *)
(* +inf and <<0, 0>> is NaN.                                               *)
Ratio(w, h) ==
    IF w = 0 /\ h = 0 THEN <<0, 0>>
    ELSE <<w \div GCD(w, h), h \div GCD(w, h)>>

RECURSIVE Count(_, _)
Count(ops, op) ==
    IF ops = <<>> THEN 0
    ELSE (IF Head(ops) = op THEN 1 ELSE 0) + Count(Tail(ops), op)

NewEvent(kind) == [kind |-> kind, result |-> "None", ops |-> <<>>]

(* wgpu::TextureFormat values a surface may report, and f.is_srgb(). *)
TextureFormats == {"Bgra8Unorm", "Rgba8Unorm", "Bgra8UnormSrgb", "Rgba8UnormSrgb"}

is_srgb(f) == f \in {"Bgra8UnormSrgb", "Rgba8UnormSrgb"}

(* SurfaceCapabilities: non-empty lists of formats, present modes and      *)
(* alpha modes.                                                            *)
FormatLists == UNION {[1..n -> TextureFormats] : n \in 1..MaxFormats}

Capabilities ==
    [formats : FormatLists,
     present_modes : {<<"Mailbox", "Fifo">>},
     alpha_modes : {<<"Auto", "Opaque">>}]

(* get_surface_configuration that takes the first reported format. *)
get_surface_configuration_FirstFormat(caps, sz) ==
    [format |-> caps.formats[1],
     width |-> sz[1],
     height |-> sz[2],
     present_mode |-> caps.present_modes[1],
     alpha_mode |-> caps.alpha_modes[1]]

(* State::get_surface_configuration *)
get_surface_configuration(caps, sz) ==
    [format |-> IF SelectSeq(caps.formats, is_srgb) # <<>>
                THEN Head(SelectSeq(caps.formats, is_srgb))
                ELSE caps.formats[1],
     width |-> sz[1],
     height |-> sz[2],
     present_mode |-> caps.present_modes[1],
     alpha_mode |-> caps.alpha_modes[1]]

(* NUM_INSTANCES_PER_ROW as f32 * 0.5 is exact: the row count is even. *)
NUM_INSTANCES_PER_ROW == 10
INSTANCE_DISPLACEMENT ==
    <<NUM_INSTANCES_PER_ROW \div 2, 0, NUM_INSTANCES_PER_ROW \div 2>>

Abs(n) == IF n < 0 THEN 0 - n ELSE n

(* Vector3::is_zero *)
is_zero(v) == v = <<0, 0, 0>>

(* Vector3::normalize: v / |v|, kept as the direction of v in lowest       *)
(* terms; the zero vector has no direction and gives NaN components.       *)
normalize(v) ==
    IF v = <<0, 0, 0>>
    THEN [nan |-> TRUE, dir |-> <<0, 0, 0>>]
    ELSE LET g == GCD(GCD(Abs(v[1]), Abs(v[2])), Abs(v[3]))
         IN [nan |-> FALSE, dir |-> <<v[1] \div g, v[2] \div g, v[3] \div g>>]

unit_z == [nan |-> FALSE, dir |-> <<0, 0, 1>>]

(* The quaternion (1; 0, 0, 0). *)
IdentityQuaternion == [angle |-> 0, axis |-> [nan |-> FALSE, dir |-> <<0, 0, 0>>]]

(* Quaternion::from_axis_angle: (cos(a/2); sin(a/2) * axis). At a = 0 the  *)
(* vector part is 0 * axis, which is zero for every axis that is not NaN.  *)
from_axis_angle(axis, deg) ==
    IF deg = 0 /\ ~axis.nan
    THEN IdentityQuaternion
    ELSE [angle |-> deg, axis |-> axis]

(* The instance of cell (x, z) without the test for the zero position. *)
InstanceAt_NoZeroCheck(x, z) ==
    LET position == <<x - INSTANCE_DISPLACEMENT[1],
                      0 - INSTANCE_DISPLACEMENT[2],
                      z - INSTANCE_DISPLACEMENT[3]>>
    IN [position |-> position,
        rotation |-> from_axis_angle(normalize(position), 45)]

(* The instance State::new makes for grid cell (x, z). *)
InstanceAt(x, z) ==
    LET position == <<x - INSTANCE_DISPLACEMENT[1],
                      0 - INSTANCE_DISPLACEMENT[2],
                      z - INSTANCE_DISPLACEMENT[3]>>
    IN [position |-> position,
        rotation |-> IF is_zero(position)
                     THEN from_axis_angle(unit_z, 0)
                     ELSE from_axis_angle(normalize(position), 45)]

(* (0..N).flat_map(|z| (0..N).map(|x| ..)).collect(): z outer, x inner. *)
NewInstances ==
    [i \in 1..(NUM_INSTANCES_PER_ROW * NUM_INSTANCES_PER_ROW) |->
        InstanceAt((i - 1) % NUM_INSTANCES_PER_ROW, (i - 1) \div NUM_INSTANCES_PER_ROW)]

(* The GPU objects State::new creates once: the surface, the device and   *)
(* the queue, the pipeline built for config.format, and the buffers.       *)
NewResources(cfg) ==
    [surface |-> "surface",
     device |-> "device",
     queue |-> "queue",
     render_pipeline |-> [pixel_format |-> cfg.format],
     vertex_buffer |-> VERTICES,
     index_buffer |-> INDICES,
     num_indices |-> Len(INDICES),
     instances |-> NewInstances,
     instance_buffer |-> "instance_buffer"]

(* The camera literal of State::new. *)
NewCamera(cfg) == [aspect |-> Ratio(cfg.width, cfg.height)]

----------------------------------------------------------------------------
(* State::new. The window's inner size is non-zero in both dimensions:     *)
(* the surface is configured with it during construction.                  *)
Init ==
    /\ size \in (1..MaxDim) \X (1..MaxDim)
    /\ adapter \in Capabilities
    /\ config = get_surface_configuration(adapter, size)
    /\ resources = NewResources(config)
    /\ surface = config
    /\ camera = NewCamera(config)
    /\ pc = "Idle"
    /\ ev = NewEvent("None")
    /\ pending = 0
    /\ redraw_requested = FALSE
    /\ exiting = FALSE
    /\ run_result = "Running"

(* The event loop dispatches an event to the closure. *)
Dispatching == pc = "Idle" /\ ~exiting /\ run_result = "Running"

----------------------------------------------------------------------------
(* resize that requests a new device and queue when it reconfigures. *)
resize_NewDevice(new_size, e) ==
    IF new_size[1] < 1 /\ new_size[2] < 1
    THEN /\ ev' = e
         /\ UNCHANGED <<size, config, surface, resources>>
    ELSE /\ size' = new_size
         /\ resources' = [resources EXCEPT !.device = "device2", !.queue = "queue2"]
         /\ config' = [config EXCEPT !.width = new_size[1], !.height = new_size[2]]
         /\ surface' = config'
         /\ ev' = [e EXCEPT !.ops = Append(@, "configure")]

(* State::resize, called by the handler whose calls so far are e. *)
resize(new_size, e) ==
    IF new_size[1] < 1 /\ new_size[2] < 1
    THEN /\ ev' = e
         /\ UNCHANGED <<size, config, surface, resources>>
    ELSE /\ size' = new_size
         /\ UNCHANGED resources
         /\ config' = [config EXCEPT !.width = new_size[1], !.height = new_size[2]]
         /\ surface' = config'
         /\ ev' = [e EXCEPT !.ops = Append(@, "configure")]

(* State::update; the event loop closure never calls it. *)
update(e) == [e EXCEPT !.ops = Append(@, "write_buffer")]

(* elwt.exit() *)
elwt_exit == exiting' = TRUE

----------------------------------------------------------------------------
(* A timer thread that submits GPU work itself when it posts its signal. *)
TimerSend_Renders ==
    /\ run_result = "Running"
    /\ pending < MaxPending
    /\ pending' = pending + 1
    /\ ev' = [ev EXCEPT !.ops = Append(@, "submit")]
    /\ UNCHANGED <<size, config, surface, camera, pc, redraw_requested,
                   exiting, run_result>>
    /\ UNCHANGED <<adapter, resources>>

(* The timer thread: sleep, then send CustomEvent::Timer through the proxy. *)
TimerSend ==
    /\ run_result = "Running"
    /\ pending < MaxPending
    /\ pending' = pending + 1
    /\ UNCHANGED <<size, config, surface, camera, pc, ev, redraw_requested,
                   exiting, run_result>>
    /\ UNCHANGED <<adapter, resources>>

(* Event::UserEvent(..) => state.window.request_redraw() *)
UserEvent ==
    /\ Dispatching
    /\ pending > 0
    /\ pending' = pending - 1
    /\ redraw_requested' = TRUE
    /\ ev' = NewEvent("UserEvent")
    /\ UNCHANGED <<size, config, surface, camera, pc, exiting, run_result>>
    /\ UNCHANGED <<adapter, resources>>

(* WindowEvent::CloseRequested => elwt.exit() *)
CloseRequested ==
    /\ Dispatching
    /\ elwt_exit
    /\ ev' = NewEvent("CloseRequested")
    /\ UNCHANGED <<size, config, surface, camera, pc, pending,
                   redraw_requested, run_result>>
    /\ UNCHANGED <<adapter, resources>>

(* WindowEvent::Resized(physical_size) => state.resize(physical_size) *)
Resized(physical_size) ==
    /\ Dispatching
    /\ resize(physical_size, NewEvent("Resized"))
    /\ UNCHANGED <<camera, pc, pending, redraw_requested, exiting, run_result>>
    /\ UNCHANGED adapter

(* WindowEvent::RedrawRequested => match state.render(): the call of       *)
(* render() up to the `?` on surface.get_current_texture().                *)
RedrawRequested(cause, outcome) ==
    /\ Dispatching
    /\ cause = "requested" => redraw_requested
    /\ redraw_requested' = FALSE
    /\ ev' = [kind |-> "RedrawRequested",
              result |-> IF outcome = "Ok" THEN "None" ELSE outcome,
              ops |-> <<"get_current_texture">>]
    /\ pc' = IF outcome = "Ok" THEN "FrameAcquired" ELSE "Failed"
    /\ UNCHANGED <<size, config, surface, camera, pending, exiting, run_result>>
    /\ UNCHANGED <<adapter, resources>>

(* RecordPass with a fallible call after the encoder is created. *)
RecordPass_Abort ==
    /\ pc = "FrameAcquired"
    /\ ev' = [ev EXCEPT !.ops = Append(@, "create_command_encoder")]
    /\ pc' = "Idle"
    /\ UNCHANGED <<size, config, surface, camera, pending, redraw_requested,
                   exiting, run_result>>
    /\ UNCHANGED <<adapter, resources>>

(* render(): the image view, the command encoder and the render pass. *)
RecordPass ==
    /\ pc = "FrameAcquired"
    /\ ev' = [ev EXCEPT !.ops = @ \o <<"create_command_encoder",
                                      "begin_render_pass", "draw_indexed">>]
    /\ pc' = "PassRecorded"
    /\ UNCHANGED <<size, config, surface, camera, pending, redraw_requested,
                   exiting, run_result>>
    /\ UNCHANGED <<adapter, resources>>

(* Submit that submits the command buffer twice. *)
Submit_Twice ==
    /\ pc = "PassRecorded"
    /\ ev' = [ev EXCEPT !.ops = @ \o <<"submit", "submit">>]
    /\ pc' = "Submitted"
    /\ UNCHANGED <<size, config, surface, camera, pending, redraw_requested,
                   exiting, run_result>>
    /\ UNCHANGED <<adapter, resources>>

(* render(): self.queue.submit(once(command_encoder.finish())) *)
Submit ==
    /\ pc = "PassRecorded"
    /\ ev' = [ev EXCEPT !.ops = Append(@, "submit")]
    /\ pc' = "Submitted"
    /\ UNCHANGED <<size, config, surface, camera, pending, redraw_requested,
                   exiting, run_result>>
    /\ UNCHANGED <<adapter, resources>>

(* render(): drawable.present(); Ok(()) *)
Present ==
    /\ pc = "Submitted"
    /\ ev' = [ev EXCEPT !.ops = Append(@, "present"), !.result = "Ok"]
    /\ pc' = "Presented"
    /\ UNCHANGED <<size, config, surface, camera, pending, redraw_requested,
                   exiting, run_result>>
    /\ UNCHANGED <<adapter, resources>>

(* Ok(_) => {} *)
MatchOk ==
    /\ pc = "Presented"
    /\ pc' = "Idle"
    /\ UNCHANGED <<size, config, surface, camera, ev, pending,
                   redraw_requested, exiting, run_result>>
    /\ UNCHANGED <<adapter, resources>>

(* MatchLost without the recovery: the Lost arm only logs. *)
MatchLost_LogOnly ==
    /\ pc = "Failed"
    /\ ev.result = "Lost"
    /\ ev' = [ev EXCEPT !.ops = Append(@, "eprintln")]
    /\ pc' = "Idle"
    /\ UNCHANGED <<size, config, surface, camera, pending, redraw_requested,
                   exiting, run_result>>
    /\ UNCHANGED <<adapter, resources>>

(* Err(SurfaceError::Lost) => state.resize(state.size) *)
MatchLost ==
    /\ pc = "Failed"
    /\ ev.result = "Lost"
    /\ resize(size, ev)
    /\ pc' = "Idle"
    /\ UNCHANGED <<camera, pending, redraw_requested, exiting, run_result>>
    /\ UNCHANGED adapter

(* MatchOutOfMemory without the exit: the OutOfMemory arm only logs. *)
MatchOutOfMemory_LogOnly ==
    /\ pc = "Failed"
    /\ ev.result = "OutOfMemory"
    /\ ev' = [ev EXCEPT !.ops = Append(@, "eprintln")]
    /\ pc' = "Idle"
    /\ UNCHANGED <<size, config, surface, camera, pending, redraw_requested,
                   exiting, run_result>>
    /\ UNCHANGED <<adapter, resources>>

(* Err(SurfaceError::OutOfMemory) => elwt.exit() *)
MatchOutOfMemory ==
    /\ pc = "Failed"
    /\ ev.result = "OutOfMemory"
    /\ elwt_exit
    /\ pc' = "Idle"
    /\ UNCHANGED <<size, config, surface, camera, ev, pending,
                   redraw_requested, run_result>>
    /\ UNCHANGED <<adapter, resources>>

(* MatchOther that treats every remaining error as fatal. *)
MatchOther_Exit ==
    /\ pc = "Failed"
    /\ ev.result \notin {"Lost", "OutOfMemory"}
    /\ elwt_exit
    /\ pc' = "Idle"
    /\ UNCHANGED <<size, config, surface, camera, ev, pending,
                   redraw_requested, run_result>>
    /\ UNCHANGED <<adapter, resources>>

(* Err(e) => eprintln!("{e:?}") *)
MatchOther ==
    /\ pc = "Failed"
    /\ ev.result \notin {"Lost", "OutOfMemory"}
    /\ ev' = [ev EXCEPT !.ops = Append(@, "eprintln")]
    /\ pc' = "Idle"
    /\ UNCHANGED <<size, config, surface, camera, pending, redraw_requested,
                   exiting, run_result>>
    /\ UNCHANGED <<adapter, resources>>

(* event_loop.run(..) returns Ok(()) once exit was requested, and          *)
(* .expect("Error!") lets run() return.                                    *)
LoopExit ==
    /\ pc = "Idle"
    /\ exiting
    /\ run_result = "Running"
    /\ run_result' = "Ok"
    /\ UNCHANGED <<size, config, surface, camera, pc, ev, pending,
                   redraw_requested, exiting>>
    /\ UNCHANGED <<adapter, resources>>

Next ==
    \/ TimerSend
    \/ UserEvent
    \/ CloseRequested
    \/ \E physical_size \in Sizes : Resized(physical_size)
    \/ \E cause \in RedrawCauses, outcome \in AcquireOutcomes :
           RedrawRequested(cause, outcome)
    \/ RecordPass
    \/ Submit
    \/ Present
    \/ MatchOk
    \/ MatchLost
    \/ MatchOutOfMemory
    \/ MatchOther
    \/ LoopExit

Spec == Init /\ [][Next]_vars

----------------------------------------------------------------------------
(* The instance list of State::new, collected one grid cell at a time.     *)

(* State::new where the collection of the instances starts: the surface is *)
(* configured, the camera and the mesh buffers exist, the Vec is empty.    *)
InitInstances ==
    /\ size \in (1..MaxDim) \X (1..MaxDim)
    /\ adapter \in {caps \in Capabilities : Len(caps.formats) = 1}
    /\ config = get_surface_configuration(adapter, size)
    /\ resources = [NewResources(config) EXCEPT !.instances = <<>>]
    /\ surface = config
    /\ camera = NewCamera(config)
    /\ pc = "New"
    /\ ev = NewEvent("None")
    /\ pending = 0
    /\ redraw_requested = FALSE
    /\ exiting = FALSE
    /\ run_result = "Running"

(* One item of (0..N).flat_map(|z| (0..N).map(move |x| ..)).collect(). *)
CollectInstance ==
    /\ pc = "New"
    /\ Len(resources.instances) < NUM_INSTANCES_PER_ROW * NUM_INSTANCES_PER_ROW
    /\ resources' =
           [resources EXCEPT !.instances =
               Append(@, InstanceAt(Len(@) % NUM_INSTANCES_PER_ROW,
                                    Len(@) \div NUM_INSTANCES_PER_ROW))]
    /\ UNCHANGED <<size, config, surface, camera, pc, ev, pending,
                   redraw_requested, exiting, run_result, adapter>>

NextInstances == CollectInstance

SpecInstances == InitInstances /\ [][NextInstances]_vars

TypeOK ==
    /\ size \in Sizes
    /\ adapter \in Capabilities
    /\ config \in [format : TextureFormats, width : Dims, height : Dims,
                   present_mode : {"Fifo", "Mailbox"}, alpha_mode : {"Auto", "Opaque"}]
    /\ surface = config
    /\ resources.num_indices = Len(INDICES)
    /\ Len(resources.instances) = NUM_INSTANCES_PER_ROW * NUM_INSTANCES_PER_ROW
    /\ camera.aspect \in Sizes
    /\ pc \in {"Idle", "FrameAcquired", "PassRecorded", "Submitted",
               "Presented", "Failed"}
    /\ ev.kind \in {"None", "UserEvent", "CloseRequested", "Resized",
                    "RedrawRequested"}
    /\ ev.result \in {"None", "Ok"} \cup SurfaceErrors
    /\ pending \in 0..MaxPending
    /\ redraw_requested \in BOOLEAN
    /\ exiting \in BOOLEAN
    /\ run_result \in {"Running", "Ok", "Err"}

----------------------------------------------------------------------------
(* Claims. *)

ZeroResized == \E s \in Sizes : (s[1] = 0 \/ s[2] = 0) /\ Resized(s)

(* C1: a Resized event whose size has a zero width or a zero height is a   *)
(* no-op: size, config.width and config.height are unchanged and the       *)
(* surface is not reconfigured.                                            *)
C1_ZeroResizeIsNoOp ==
    [][ZeroResized => /\ UNCHANGED <<size, config, surface>>
                      /\ Count(ev'.ops, "configure") = 0]_vars

(* C2: once a redraw whose acquisition failed with Lost or with Outdated   *)
(* has been handled, the surface was reconfigured once at state.size and   *)
(* nothing was submitted or presented for that frame.                      *)
C2_LostOrOutdatedReconfigures ==
    (pc = "Idle" /\ ev.kind = "RedrawRequested" /\ ev.result \in {"Lost", "Outdated"})
        => /\ Count(ev.ops, "configure") = 1
           /\ surface.width = size[1]
           /\ surface.height = size[2]
           /\ Count(ev.ops, "submit") = 0
           /\ Count(ev.ops, "present") = 0

(* C3: every handled redraw request runs update() first, so the camera     *)
(* buffer is written exactly once, before the frame is acquired and drawn. *)
C3_UpdateThenRender ==
    ev.kind = "RedrawRequested"
        => /\ Head(ev.ops) = "write_buffer"
           /\ Count(ev.ops, "write_buffer") = 1

PositiveResized(w, h) == w > 0 /\ h > 0 /\ Resized(<<w, h>>)

(* C7: after every resize(w, h) with w > 0 and h > 0 the camera's aspect   *)
(* is the ratio w / h of the new size.                                     *)
C7_AspectFollowsResize ==
    [][\A w, h \in Dims : PositiveResized(w, h) => camera'.aspect = Ratio(w, h)]_vars

(* C8: in every reachable state config.width and config.height equal the   *)
(* last known window size and both are strictly greater than zero.         *)
C8_ConfigMirrorsPositiveSize ==
    /\ config.width = size[1]
    /\ config.height = size[2]
    /\ config.width > 0
    /\ config.height > 0

Handled(results) ==
    pc = "Idle" /\ ev.kind = "RedrawRequested" /\ ev.result \in results

RenderOkOps ==
    <<"get_current_texture", "create_command_encoder", "begin_render_pass",
      "draw_indexed", "submit", "present">>

(* C5: a render() that returned Ok made exactly one acquisition, one       *)
(* render pass, one submission and one present, in that order, and the     *)
(* loop thread is at the Ok arm or back in Idle, still dispatching.        *)
C5_OneFramePerOk ==
    ev.result = "Ok"
        => /\ Count(ev.ops, "get_current_texture") = 1
           /\ Count(ev.ops, "begin_render_pass") = 1
           /\ Count(ev.ops, "submit") = 1
           /\ Count(ev.ops, "present") = 1
           /\ ev.ops = RenderOkOps
           /\ pc \in {"Presented", "Idle"}
           /\ (pc = "Idle" => Dispatching)

C5_Witness == ev.result = "Ok" /\ pc = "Idle" /\ ev.ops = RenderOkOps

(* C6: a redraw whose acquisition failed with Lost makes exactly one       *)
(* surface reconfiguration and no submission and no present, for every     *)
(* stored size.                                                            *)
C6_LostReconfiguresOnce ==
    /\ Handled({"Lost"})
          => /\ Count(ev.ops, "configure") = 1
             /\ Count(ev.ops, "submit") = 0
             /\ Count(ev.ops, "present") = 0
    /\ (pc = "Failed" /\ ev.result = "Lost")
          => ev.ops = <<"get_current_texture">>

C6_Witness == Handled({"Lost"}) /\ ev.ops = <<"get_current_texture", "configure">>

OtherErrors == SurfaceErrors \ {"Lost", "Outdated", "OutOfMemory"}

(* C9: a redraw whose acquisition failed with an error other than Lost,    *)
(* Outdated and OutOfMemory is skipped and only logged: nothing is         *)
(* recorded, submitted, presented or reconfigured, size, config, surface   *)
(* and camera keep their values, no exit is requested, and a redraw that   *)
(* acquires its frame can be dispatched next.                              *)
C9_OtherErrorSkipsFrame ==
    /\ [](Handled(OtherErrors)
            => /\ ev.ops = <<"get_current_texture", "eprintln">>
               /\ ~exiting
               /\ run_result = "Running"
               /\ ENABLED RedrawRequested("exposed", "Ok"))
    /\ [][(pc = "Failed" /\ ev.result \in OtherErrors)
            => UNCHANGED <<size, config, surface, camera, exiting, run_result>>]_vars

C9_Witness == Handled(OtherErrors) /\ Count(ev.ops, "eprintln") = 1

RECURSIVE IsPrefix(_, _)
IsPrefix(s, t) ==
    \/ s = <<>>
    \/ /\ t # <<>>
       /\ Head(s) = Head(t)
       /\ IsPrefix(Tail(s), Tail(t))

MidFrame == {"FrameAcquired", "PassRecorded", "Submitted"}

NextStage(p) ==
    CASE p = "FrameAcquired" -> "PassRecorded"
      [] p = "PassRecorded" -> "Submitted"
      [] p = "Submitted" -> "Presented"

StageOrder == pc \in MidFrame => (pc' = pc \/ pc' = NextStage(pc))

(* C10: a render() call whose acquisition failed made no other call, and   *)
(* one whose acquisition succeeded has made a prefix of the calls of a     *)
(* full frame and leaves each stage only for the next one, up to present.  *)
C10_NoPartialFrame ==
    /\ [](ev.kind = "RedrawRequested"
            => \/ /\ ev.result \in SurfaceErrors
                  /\ pc \in {"Failed", "Idle"}
                  /\ Count(ev.ops, "create_command_encoder") = 0
                  /\ Count(ev.ops, "begin_render_pass") = 0
                  /\ Count(ev.ops, "submit") = 0
                  /\ Count(ev.ops, "present") = 0
               \/ /\ ev.result = "None"
                  /\ pc \in MidFrame
                  /\ IsPrefix(ev.ops, RenderOkOps)
               \/ /\ ev.result = "Ok"
                  /\ pc \in {"Presented", "Idle"}
                  /\ ev.ops = RenderOkOps)
    /\ [][StageOrder]_vars

C10_Witness == pc = "Submitted" /\ Len(ev.ops) = 5

TimerPosted == pending' > pending

GpuStep == size' # size \/ config' # config \/ surface' # surface \/ ev' # ev

(* C11: a step of the timer thread only adds a pending redraw signal and   *)
(* can be taken whatever the event loop is doing; every step that touches  *)
(* size, config, surface or the calls of a frame is a step of the one      *)
(* event loop thread (a handler started from Idle, or the next stage of    *)
(* the handler in progress); the surface is reconfigured only while no     *)
(* frame is in flight; consuming, coalescing or dropping redraw signals    *)
(* changes no renderer state.                                              *)
C11_TimerOnlySignals ==
    /\ [][TimerPosted => UNCHANGED <<size, config, surface, camera, pc, ev,
                                     redraw_requested, exiting, run_result>>]_vars
    /\ [][GpuStep => (~TimerPosted /\ (pc = "Idle" \/ pc' # pc))]_vars
    /\ [][surface' # surface => (pc \in {"Idle", "Failed"} /\ pc' = "Idle")]_vars
    /\ [][(pending' < pending \/ run_result' # run_result)
            => (/\ UNCHANGED <<size, config, surface, camera>>
                /\ (redraw_requested => redraw_requested'))]_vars
    /\ []((run_result = "Running" /\ pending < MaxPending) => ENABLED TimerSend)

C11_Witness == pc = "Submitted" /\ pending > 0

FirstSrgb(i) ==
    /\ is_srgb(adapter.formats[i])
    /\ \A j \in 1..(i - 1) : ~is_srgb(adapter.formats[j])

(* C12: the configured surface format is the first sRGB format of the      *)
(* adapter's list, in list order, when the list has one, and the first     *)
(* reported format otherwise; before any event is handled config.width and *)
(* config.height are the window's initial size.                            *)
C12_FormatPreference ==
    /\ IF \E i \in DOMAIN adapter.formats : is_srgb(adapter.formats[i])
       THEN \E i \in DOMAIN adapter.formats :
                FirstSrgb(i) /\ config.format = adapter.formats[i]
       ELSE config.format = adapter.formats[1]
    /\ ev.kind = "None" => (config.width = size[1] /\ config.height = size[2])

C12_Witness ==
    /\ ev.kind = "None"
    /\ adapter.formats = <<"Bgra8Unorm", "Rgba8UnormSrgb">>
    /\ config.format = "Rgba8UnormSrgb"
    /\ size = <<MaxDim, 1>>
    /\ config.width = MaxDim

Cells == 0..(NUM_INSTANCES_PER_ROW - 1)

CellIndex(x, z) == z * NUM_INSTANCES_PER_ROW + x + 1

Collected(x, z) == CellIndex(x, z) <= Len(resources.instances)

CellInstance(x, z) == resources.instances[CellIndex(x, z)]

(* C13: the instances are collected row z after row z - 1 with x ascending *)
(* within a row; the entry of cell (x, z) is at (x, 0, z) minus the        *)
(* displacement; the cell at the displacement has the identity rotation,   *)
(* every other cell has the 45 degree rotation about the direction of its  *)
(* position, and no rotation axis is the NaN of a normalized zero vector;  *)
(* the complete list has one entry per cell of the 10 x 10 grid, exactly   *)
(* one of them with the identity rotation, and equals the list that a      *)
(* second generation gives.                                                *)
C13_InstanceGrid ==
    /\ \A x \in Cells, z \in Cells :
          Collected(x, z) =>
              /\ CellInstance(x, z).position =
                     <<x - INSTANCE_DISPLACEMENT[1], 0, z - INSTANCE_DISPLACEMENT[3]>>
              /\ ~CellInstance(x, z).rotation.axis.nan
              /\ IF <<x, 0, z>> = INSTANCE_DISPLACEMENT
                 THEN CellInstance(x, z).rotation = IdentityQuaternion
                 ELSE /\ CellInstance(x, z).rotation.angle = 45
                      /\ CellInstance(x, z).rotation.axis.dir[1] * (z - INSTANCE_DISPLACEMENT[3])
                           = CellInstance(x, z).rotation.axis.dir[3] * (x - INSTANCE_DISPLACEMENT[1])
                      /\ CellInstance(x, z).rotation.axis.dir[1] * (x - INSTANCE_DISPLACEMENT[1]) >= 0
                      /\ CellInstance(x, z).rotation.axis.dir[3] * (z - INSTANCE_DISPLACEMENT[3]) >= 0
                      /\ CellInstance(x, z).rotation.axis.dir # <<0, 0, 0>>
    /\ Len(resources.instances) <= NUM_INSTANCES_PER_ROW * NUM_INSTANCES_PER_ROW
    /\ ~ENABLED CollectInstance =>
          /\ Len(resources.instances) = NUM_INSTANCES_PER_ROW * NUM_INSTANCES_PER_ROW
          /\ Cardinality({i \in DOMAIN resources.instances :
                             resources.instances[i].rotation = IdentityQuaternion}) = 1
          /\ resources.instances = NewInstances

C13_Witness ==
    /\ ~ENABLED CollectInstance
    /\ CellInstance(5, 5).position = <<0, 0, 0>>
    /\ CellInstance(5, 5).rotation = IdentityQuaternion
    /\ CellInstance(9, 0).position = <<4, 0, -5>>
    /\ CellInstance(0, 9).rotation.axis.dir = <<-5, 0, 4>>

(* A Resized event that passes the guard of State::resize. *)
AcceptedResized(s) == ~(s[1] < 1 /\ s[2] < 1) /\ Resized(s)

ResizeEffect(s) ==
    /\ size' = s
    /\ config'.width = s[1]
    /\ config'.height = s[2]
    /\ surface' = config'
    /\ Count(ev'.ops, "configure") = 1
    /\ config'.format = config.format
    /\ config'.present_mode = config.present_mode
    /\ config'.alpha_mode = config.alpha_mode
    /\ resources'.surface = resources.surface
    /\ resources'.device = resources.device
    /\ resources'.queue = resources.queue
    /\ resources'.render_pipeline = resources.render_pipeline
    /\ resources'.vertex_buffer = resources.vertex_buffer
    /\ resources'.index_buffer = resources.index_buffer
    /\ resources'.instance_buffer = resources.instance_buffer
    /\ resources'.num_indices = resources.num_indices
    /\ resources'.instances = resources.instances

(* C14: a resize that is accepted sets size, config.width and              *)
(* config.height to the new size and configures the same surface exactly   *)
(* once with the new config; the device, the queue, the format, present    *)
(* mode and alpha mode, the pipeline, the vertex, index and instance       *)
(* buffers, the index count and the instances keep their values.           *)
C14_AcceptedResizeFrame ==
    [][\A s \in Sizes : AcceptedResized(s) => ResizeEffect(s)]_vars

C14_Witness ==
    /\ ev.kind = "Resized"
    /\ ev.ops = <<"configure">>
    /\ size = <<MaxDim, 1>>
    /\ config.width = MaxDim
    /\ surface = config
    /\ adapter.formats[1] = "Bgra8Unorm"
    /\ config.format = "Rgba8UnormSrgb"
    /\ resources.device = "device"

====
